---- MODULE Spec2Model ----
(***************************************************************************)
(* Model of vocode/streaming/telephony/conversation/outbound_call.py:      *)
(* the OutboundCall lifecycle manager (validate, dispatch, record, end).   *)
(*                                                                         *)
(* The provider (Twilio), the config manager and the templater are the     *)
(* environment: every response they can give is a nondeterministic input.  *)
(* `log` is the history of what each instance called, requested from the   *)
(* environment, and returned or raised.                                    *)
(***************************************************************************)
EXTENDS Integers, Sequences, FiniteSets, TLC

VARIABLES request, twilio_sid, pc, calls, store, log

vars == <<request, twilio_sid, pc, calls, store, log>>

(***************************************************************************)
(* Bounds                                                                  *)
(***************************************************************************)
\* number of method invocations (start, end, create_twilio_call,
\* validate_outbound_call) in one behaviour
MaxOps == 3

(***************************************************************************)
(* Values                                                                  *)
(***************************************************************************)
\* Python's None
NoneValue == "None"

\* len(to_phone) < 8
MinToPhoneLen == 8

\* the instances of one behaviour
Single == {1}
\* two independent instances
Pair == {1, 2}

\* destination numbers on either side of the length check: 7 and 8 characters
Phones == {"5551234", "12345678"}
\* arguments of a direct validate_outbound_call: 0, 7, 8 and 12 characters
ToPhones == Phones \cup {"", "+15558675309"}
FromPhone == "+15550001111"
BaseUrl == "example.ngrok.io"

\* conversation_id argument of the constructor
SuppliedIds == {NoneValue, "", "conv-A"}

\* create_conversation_id(): a fresh token per instance
create_conversation_id(i) == <<"gen-1", "gen-2">>[i]

\* sids the provider assigns, in order of placement
SidTable == <<"CA1", "CA2", "CA3", "CA4", "CA5", "CA6">>

\* Python truthiness of an Optional[str]
Truthy(s) == s # NoneValue /\ s # ""

\* results of a method: a normal return of None, or the exception raised
Ok == "None"
InvalidToPhone == "ValueError: Invalid 'to' phone"
NotMobile == "ValueError: Can only call mobile phones"
ProviderError == "ProviderError"
PersistenceError == "PersistenceError"
ValidationErrors == {InvalidToPhone, NotMobile}

(***************************************************************************)
(* Environment responses                                                   *)
(***************************************************************************)
ErrorResponse == [kind |-> "error"]

\* lookups.v2.phone_numbers(to).fetch(...).line_type_intelligence:
\* None, or a dict whose "type" is a string or null; or the request fails
LineTypes == {"mobile", "landline", "Mobile", NoneValue}
LookupResponses ==
    {[kind |-> "none"]} \cup {[kind |-> "dict", type |-> t] : t \in LineTypes}
        \cup {ErrorResponse}

\* calls.create(...): a call resource with its sid, or the request fails.
\* The sid attribute is Optional[str]: the provider's fresh sid, or an
\* empty/missing one.
CreateResponses ==
    {[kind |-> "call", sid |-> s] :
        s \in {SidTable[Len(calls) + 1], "", NoneValue}}
        \cup {ErrorResponse}

\* calls(sid).update(status=...): the call's resulting status; an unknown
\* handle is a provider error
StatusStrings == {"completed", "Completed", "canceled", "in-progress"}
UpdateResponses(sid) ==
    IF \E k \in 1..Len(calls) : calls[k].sid = sid /\ Truthy(sid)
    THEN {[kind |-> "status", status |-> s] : s \in StatusStrings}
             \cup {ErrorResponse}
    ELSE {ErrorResponse}

\* config_manager.save_config(...)
SaveResponses == {Ok, PersistenceError}

(***************************************************************************)
(* History events                                                          *)
(***************************************************************************)
CallEv(i, op) == [ev |-> "call", inst |-> i, op |-> op]
ReturnEv(i, op, result) ==
    [ev |-> "return", inst |-> i, op |-> op, result |-> result]
ValidateReturnEv(i, to_phone, mobile_only, result) ==
    [ev |-> "return", inst |-> i, op |-> "validate_outbound_call",
     to |-> to_phone, mobile_only |-> mobile_only, result |-> result]
LookupEv(i, to_phone, resp) ==
    [ev |-> "lookup", inst |-> i, to |-> to_phone, resp |-> resp]
CreateEv(i, req, resp) ==
    [ev |-> "create", inst |-> i, req |-> req, resp |-> resp]
SaveEv(i, key, call_config, resp) ==
    [ev |-> "save_config", inst |-> i, key |-> key,
     call_config |-> call_config, resp |-> resp]
UpdateEv(i, sid, status, resp) ==
    [ev |-> "update", inst |-> i, sid |-> sid, status |-> status,
     resp |-> resp]

NumOps == Cardinality({k \in 1..Len(log) : log[k].ev = "call"})

(***************************************************************************)
(* __init__                                                                *)
(***************************************************************************)
NewRequest(i, to_phone, mobile_only, conversation_id) ==
    [base_url |-> BaseUrl,
     to_phone |-> to_phone,
     digits |-> NoneValue,
     from_phone |-> FromPhone,
     mobile_only |-> mobile_only,
     conversation_id |->
        IF Truthy(conversation_id) THEN conversation_id
        ELSE create_conversation_id(i),
     agent_config |-> "agent_config",
     transcriber_config |-> "DeepgramTranscriberConfig",
     synthesizer_config |-> "AzureSynthesizerConfig",
     twilio_config |-> "TwilioConfig",
     record |-> FALSE]

InitOver(I) ==
    /\ \E args \in [I -> Phones \X BOOLEAN \X SuppliedIds] :
          request = [i \in I |->
                        NewRequest(i, args[i][1], args[i][2], args[i][3])]
    /\ twilio_sid = [i \in I |-> NoneValue]
    /\ pc = [i \in I |-> "idle"]
    /\ calls = <<>>
    /\ store = <<>>
    /\ log = <<>>

Init == InitOver(Single)

\* two instances constructed with distinct conversation identifiers (one
\* supplied, one generated), for the same destination
InitTwo ==
    /\ InitOver(Pair)
    /\ request[1].conversation_id # request[2].conversation_id
    /\ request[1].conversation_id = "conv-A"
    /\ \A i \in Pair :
          request[i].to_phone = "12345678" /\ ~request[i].mobile_only

(***************************************************************************)
(* validate_outbound_call                                                  *)
(***************************************************************************)
\* mutation of LengthOk: the comparison is off by one
LengthOk_OffByOne(to_phone) == Len(to_phone) >= MinToPhoneLen - 1

LengthOk(to_phone) == Len(to_phone) >= MinToPhoneLen

\* mutation of LineTypeRejected: the "not line_type_intelligence" test is
\* missing
LineTypeRejected_IgnoresNone(lti) ==
    lti.kind = "dict" /\ lti.type # "mobile"

\* not line_type_intelligence or (line_type_intelligence and
\*     line_type_intelligence["type"] != "mobile")
LineTypeRejected(lti) ==
    \/ lti.kind = "none"
    \/ lti.kind = "dict" /\ lti.type # "mobile"

\* mutation of validate_outbound_call: the "if not mobile_only: return" is
\* missing
validate_outbound_call_AlwaysLooksUp(i, to_phone, mobile_only, resp) ==
    IF Len(to_phone) < MinToPhoneLen
    THEN <<ValidateReturnEv(i, to_phone, mobile_only, InvalidToPhone)>>
    ELSE <<LookupEv(i, to_phone, resp),
           ValidateReturnEv(i, to_phone, mobile_only,
               IF resp.kind = "error" THEN ProviderError
               ELSE IF resp.kind = "none" \/ resp.type # "mobile"
               THEN NotMobile
               ELSE Ok)>>

\* mutation of validate_outbound_call: a failed lookup is swallowed and the
\* destination is accepted
validate_outbound_call_SwallowsLookupError(i, to_phone, mobile_only, resp) ==
    IF Len(to_phone) < MinToPhoneLen
    THEN <<ValidateReturnEv(i, to_phone, mobile_only, InvalidToPhone)>>
    ELSE IF ~mobile_only
    THEN <<ValidateReturnEv(i, to_phone, mobile_only, Ok)>>
    ELSE <<LookupEv(i, to_phone, resp),
           ValidateReturnEv(i, to_phone, mobile_only,
               IF resp.kind = "error" THEN Ok
               ELSE IF resp.kind = "none" \/ resp.type # "mobile"
               THEN NotMobile
               ELSE Ok)>>

\* the history of one invocation, statement by statement: the length check,
\* the mobile_only return, the lookup request and the check of its response.
\* resp is the response the lookup gives if it is asked.
validate_outbound_call(i, to_phone, mobile_only, resp) ==
    IF ~LengthOk(to_phone)
    THEN <<ValidateReturnEv(i, to_phone, mobile_only, InvalidToPhone)>>
    ELSE IF ~mobile_only
    THEN <<ValidateReturnEv(i, to_phone, mobile_only, Ok)>>
    ELSE <<LookupEv(i, to_phone, resp),
           ValidateReturnEv(i, to_phone, mobile_only,
               IF resp.kind = "error" THEN ProviderError
               ELSE IF LineTypeRejected(resp) THEN NotMobile
               ELSE Ok)>>

\* the result an invocation ended with
ResultOf(events) == events[Len(events)].result

\* a caller invokes validate_outbound_call directly
Validate(i, to_phone, mobile_only, resp) ==
    /\ pc[i] = "idle"
    /\ NumOps < MaxOps
    /\ log' = log \o <<CallEv(i, "validate_outbound_call")>>
                  \o validate_outbound_call(i, to_phone, mobile_only, resp)
    /\ UNCHANGED <<request, twilio_sid, pc, calls, store>>

(***************************************************************************)
(* create_twilio_call                                                      *)
(***************************************************************************)
\* templater.get_connection_twiml(base_url, call_id)
get_connection_twiml(base_url, call_id) ==
    [base_url |-> base_url, call_id |-> call_id]

\* mutation of CreateRequest: the call id of the connection instructions is
\* generated anew instead of taken from the instance
CreateRequest_FreshId(i, to_phone, from_phone, digits, record) ==
    [twiml |-> get_connection_twiml(request[i].base_url,
                                    create_conversation_id(i)),
     to |-> to_phone,
     from_ |-> from_phone,
     send_digits |-> digits,
     record |-> record]

\* the arguments of twilio_client.calls.create
CreateRequest(i, to_phone, from_phone, digits, record) ==
    [twiml |-> get_connection_twiml(request[i].base_url,
                                    request[i].conversation_id),
     to |-> to_phone,
     from_ |-> from_phone,
     send_digits |-> digits,
     record |-> record]

\* the provider's calls after the request
PlacedCalls(req, resp) ==
    IF resp.kind = "error" THEN calls
    ELSE Append(calls, [sid |-> resp.sid, req |-> req])

\* return twilio_call.sid, or the provider's error
create_twilio_call(resp) ==
    IF resp.kind = "error" THEN ProviderError ELSE resp.sid

\* mutation of CreateTwilioCall: create_twilio_call itself stores the sid in
\* the instance
CreateTwilioCall_SetsHandle(i, to_phone, resp) ==
    /\ pc[i] = "idle"
    /\ NumOps < MaxOps
    /\ LET req == CreateRequest(i, to_phone, request[i].from_phone, "", FALSE)
       IN /\ calls' = PlacedCalls(req, resp)
          /\ log' = log \o <<CallEv(i, "create_twilio_call"),
                             CreateEv(i, req, resp),
                             ReturnEv(i, "create_twilio_call",
                                      create_twilio_call(resp))>>
    /\ twilio_sid' = IF resp.kind = "error" THEN twilio_sid
                     ELSE [twilio_sid EXCEPT ![i] = resp.sid]
    /\ UNCHANGED <<request, pc, store>>

\* a caller invokes create_twilio_call directly
CreateTwilioCall(i, to_phone, resp) ==
    /\ pc[i] = "idle"
    /\ NumOps < MaxOps
    /\ LET req == CreateRequest(i, to_phone, request[i].from_phone, "", FALSE)
       IN /\ calls' = PlacedCalls(req, resp)
          /\ log' = log \o <<CallEv(i, "create_twilio_call"),
                             CreateEv(i, req, resp),
                             ReturnEv(i, "create_twilio_call",
                                      create_twilio_call(resp))>>
    /\ UNCHANGED <<request, twilio_sid, pc, store>>

(***************************************************************************)
(* start                                                                   *)
(***************************************************************************)
\* mutation of StartValidate: the validation's exception is swallowed and
\* start() goes on to place the call
StartValidate_Unchecked(i, resp) ==
    /\ pc[i] = "idle"
    /\ NumOps < MaxOps
    /\ LET r == request[i]
       IN log' = log \o <<CallEv(i, "start")>>
                     \o validate_outbound_call(i, r.to_phone, r.mobile_only,
                                               resp)
    /\ pc' = [pc EXCEPT ![i] = "create"]
    /\ UNCHANGED <<request, twilio_sid, calls, store>>

\* mutation of StartValidate: start() clears the handle before validating
StartValidate_ResetsHandle(i, resp) ==
    /\ pc[i] = "idle"
    /\ NumOps < MaxOps
    /\ LET r == request[i]
           events ==
               validate_outbound_call(i, r.to_phone, r.mobile_only, resp)
           result == ResultOf(events)
       IN /\ log' = log \o <<CallEv(i, "start")>> \o events
                        \o (IF result = Ok THEN <<>>
                            ELSE <<ReturnEv(i, "start", result)>>)
          /\ pc' = [pc EXCEPT ![i] = IF result = Ok THEN "create" ELSE "idle"]
    /\ twilio_sid' = [twilio_sid EXCEPT ![i] = NoneValue]
    /\ UNCHANGED <<request, calls, store>>

\* lines 112-117: the validation; an exception ends start()
StartValidate(i, resp) ==
    /\ pc[i] = "idle"
    /\ NumOps < MaxOps
    /\ LET r == request[i]
           events ==
               validate_outbound_call(i, r.to_phone, r.mobile_only, resp)
           result == ResultOf(events)
       IN /\ log' = log \o <<CallEv(i, "start")>> \o events
                        \o (IF result = Ok THEN <<>>
                            ELSE <<ReturnEv(i, "start", result)>>)
          /\ pc' = [pc EXCEPT ![i] = IF result = Ok THEN "create" ELSE "idle"]
    /\ UNCHANGED <<request, twilio_sid, calls, store>>

\* mutation of StartCreate: a failed call-creation request clears the handle
StartCreate_ClearsHandleOnError(i, resp) ==
    /\ pc[i] = "create"
    /\ LET r == request[i]
           req == CreateRequest(i, r.to_phone, r.from_phone, r.digits, r.record)
       IN /\ calls' = PlacedCalls(req, resp)
          /\ IF resp.kind = "error"
             THEN /\ log' = log \o <<CreateEv(i, req, resp),
                                     ReturnEv(i, "start", ProviderError)>>
                  /\ pc' = [pc EXCEPT ![i] = "idle"]
                  /\ twilio_sid' = [twilio_sid EXCEPT ![i] = NoneValue]
             ELSE /\ log' = log \o <<CreateEv(i, req, resp)>>
                  /\ pc' = [pc EXCEPT ![i] = "save"]
                  /\ twilio_sid' =
                        [twilio_sid EXCEPT ![i] = create_twilio_call(resp)]
    /\ UNCHANGED <<request, store>>

\* mutation of StartCreate: the handle is only set while it is None
StartCreate_KeepsFirstHandle(i, resp) ==
    /\ pc[i] = "create"
    /\ LET r == request[i]
           req == CreateRequest(i, r.to_phone, r.from_phone, r.digits, r.record)
       IN /\ calls' = PlacedCalls(req, resp)
          /\ IF resp.kind = "error"
             THEN /\ log' = log \o <<CreateEv(i, req, resp),
                                     ReturnEv(i, "start", ProviderError)>>
                  /\ pc' = [pc EXCEPT ![i] = "idle"]
                  /\ UNCHANGED twilio_sid
             ELSE /\ log' = log \o <<CreateEv(i, req, resp)>>
                  /\ pc' = [pc EXCEPT ![i] = "save"]
                  /\ twilio_sid' =
                        [twilio_sid EXCEPT ![i] = IF twilio_sid[i] = NoneValue
                                                     THEN create_twilio_call(resp)
                                                     ELSE twilio_sid[i]]
    /\ UNCHANGED <<request, store>>

\* mutation of StartCreate: no request is issued while the instance holds a
\* handle
StartCreate_Idempotent(i, resp) ==
    /\ pc[i] = "create"
    /\ LET r == request[i]
           req == CreateRequest(i, r.to_phone, r.from_phone, r.digits, r.record)
       IN IF Truthy(twilio_sid[i])
          THEN /\ pc' = [pc EXCEPT ![i] = "save"]
               /\ UNCHANGED <<calls, log, twilio_sid>>
          ELSE /\ calls' = PlacedCalls(req, resp)
               /\ IF resp.kind = "error"
                  THEN /\ log' = log \o <<CreateEv(i, req, resp),
                                          ReturnEv(i, "start", ProviderError)>>
                       /\ pc' = [pc EXCEPT ![i] = "idle"]
                       /\ UNCHANGED twilio_sid
                  ELSE /\ log' = log \o <<CreateEv(i, req, resp)>>
                       /\ pc' = [pc EXCEPT ![i] = "save"]
                       /\ twilio_sid' =
                             [twilio_sid EXCEPT ![i] = create_twilio_call(resp)]
    /\ UNCHANGED <<request, store>>

\* mutation of StartCreate: the handle is kept in a class attribute that all
\* instances share
StartCreate_SharedHandle(i, resp) ==
    /\ pc[i] = "create"
    /\ LET r == request[i]
           req == CreateRequest(i, r.to_phone, r.from_phone, r.digits, r.record)
       IN /\ calls' = PlacedCalls(req, resp)
          /\ IF resp.kind = "error"
             THEN /\ log' = log \o <<CreateEv(i, req, resp),
                                     ReturnEv(i, "start", ProviderError)>>
                  /\ pc' = [pc EXCEPT ![i] = "idle"]
                  /\ UNCHANGED twilio_sid
             ELSE /\ log' = log \o <<CreateEv(i, req, resp)>>
                  /\ pc' = [pc EXCEPT ![i] = "save"]
                  /\ twilio_sid' =
                        [j \in DOMAIN twilio_sid |-> create_twilio_call(resp)]
    /\ UNCHANGED <<request, store>>

\* mutation of StartCreate: a failed call-creation request is retried once
StartCreate_Retries(i, resp) ==
    /\ pc[i] = "create"
    /\ LET r == request[i]
           req == CreateRequest(i, r.to_phone, r.from_phone, r.digits, r.record)
       IN /\ calls' = PlacedCalls(req, resp)
          /\ IF resp.kind = "error"
             THEN /\ log' = log \o <<CreateEv(i, req, resp),
                                     CreateEv(i, req, resp),
                                     ReturnEv(i, "start", ProviderError)>>
                  /\ pc' = [pc EXCEPT ![i] = "idle"]
                  /\ UNCHANGED twilio_sid
             ELSE /\ log' = log \o <<CreateEv(i, req, resp)>>
                  /\ pc' = [pc EXCEPT ![i] = "save"]
                  /\ twilio_sid' =
                        [twilio_sid EXCEPT ![i] = create_twilio_call(resp)]
    /\ UNCHANGED <<request, store>>

\* lines 118-123: self.twilio_sid = self.create_twilio_call(...)
StartCreate(i, resp) ==
    /\ pc[i] = "create"
    /\ LET r == request[i]
           req == CreateRequest(i, r.to_phone, r.from_phone, r.digits, r.record)
       IN /\ calls' = PlacedCalls(req, resp)
          /\ IF resp.kind = "error"
             THEN /\ log' = log \o <<CreateEv(i, req, resp),
                                     ReturnEv(i, "start", ProviderError)>>
                  /\ pc' = [pc EXCEPT ![i] = "idle"]
                  /\ UNCHANGED twilio_sid
             ELSE /\ log' = log \o <<CreateEv(i, req, resp)>>
                  /\ pc' = [pc EXCEPT ![i] = "save"]
                  /\ twilio_sid' =
                        [twilio_sid EXCEPT ![i] = create_twilio_call(resp)]
    /\ UNCHANGED <<request, store>>

\* mutation of CallConfig: the record is built without the dispatched handle
CallConfig_StaleSid(i) ==
    [transcriber_config |-> request[i].transcriber_config,
     agent_config |-> request[i].agent_config,
     synthesizer_config |-> request[i].synthesizer_config,
     twilio_config |-> request[i].twilio_config,
     twilio_sid |-> NoneValue,
     twilio_from |-> request[i].from_phone,
     twilio_to |-> request[i].to_phone]

\* lines 124-132
CallConfig(i) ==
    [transcriber_config |-> request[i].transcriber_config,
     agent_config |-> request[i].agent_config,
     synthesizer_config |-> request[i].synthesizer_config,
     twilio_config |-> request[i].twilio_config,
     twilio_sid |-> twilio_sid[i],
     twilio_from |-> request[i].from_phone,
     twilio_to |-> request[i].to_phone]

\* mutation of SavedStore: the record is written although the write is
\* reported as failed
SavedStore_WritesOnFailure(key, call_config, resp) ==
    [k \in DOMAIN store \cup {key} |->
        IF k = key THEN call_config ELSE store[k]]

\* the config manager's store after a write
SavedStore(key, call_config, resp) ==
    IF resp = Ok
    THEN [k \in DOMAIN store \cup {key} |->
             IF k = key THEN call_config ELSE store[k]]
    ELSE store

\* mutation of StartSave: a failed write is retried inside start()
StartSave_Retry(i, resp) ==
    /\ pc[i] = "save"
    /\ LET key == request[i].conversation_id
       IN /\ store' = SavedStore(key, CallConfig(i), resp)
          /\ log' = log \o <<SaveEv(i, key, CallConfig(i), resp)>>
                        \o (IF resp = Ok THEN <<ReturnEv(i, "start", resp)>>
                            ELSE <<>>)
    /\ pc' = [pc EXCEPT ![i] = IF resp = Ok THEN "idle" ELSE "save"]
    /\ UNCHANGED <<request, twilio_sid, calls>>

\* line 133: self.config_manager.save_config(self.conversation_id, call_config)
StartSave(i, resp) ==
    /\ pc[i] = "save"
    /\ LET key == request[i].conversation_id
       IN /\ store' = SavedStore(key, CallConfig(i), resp)
          /\ log' = log \o <<SaveEv(i, key, CallConfig(i), resp),
                             ReturnEv(i, "start", resp)>>
    /\ pc' = [pc EXCEPT ![i] = "idle"]
    /\ UNCHANGED <<request, twilio_sid, calls>>

(***************************************************************************)
(* end                                                                     *)
(***************************************************************************)
\* mutation of EndResult: the status is compared without regard to case
EndResult_CaseInsensitive(resp) ==
    IF resp.kind = "error" THEN ProviderError
    ELSE IF resp.status \in {"completed", "Completed"} THEN "True"
    ELSE "False"

\* return response.status == "completed"
EndResult(resp) ==
    IF resp.kind = "error" THEN ProviderError
    ELSE IF resp.status = "completed" THEN "True" ELSE "False"

\* mutation of End: end() forgets the handle once termination is requested
End_ClearsHandle(i, resp) ==
    /\ pc[i] = "idle"
    /\ NumOps < MaxOps
    /\ log' = log \o <<CallEv(i, "end"),
                       UpdateEv(i, twilio_sid[i], "completed", resp),
                       ReturnEv(i, "end", EndResult(resp))>>
    /\ twilio_sid' = [twilio_sid EXCEPT ![i] = NoneValue]
    /\ UNCHANGED <<request, pc, calls, store>>

End(i, resp) ==
    /\ pc[i] = "idle"
    /\ NumOps < MaxOps
    /\ log' = log \o <<CallEv(i, "end"),
                       UpdateEv(i, twilio_sid[i], "completed", resp),
                       ReturnEv(i, "end", EndResult(resp))>>
    /\ UNCHANGED <<request, twilio_sid, pc, calls, store>>

(***************************************************************************)
(* Specification                                                           *)
(***************************************************************************)
Next ==
    \/ \E i \in DOMAIN pc, p \in Phones, resp \in CreateResponses :
          CreateTwilioCall(i, p, resp)
    \/ \E i \in DOMAIN pc, resp \in LookupResponses : StartValidate(i, resp)
    \/ \E i \in DOMAIN pc, resp \in CreateResponses : StartCreate(i, resp)
    \/ \E i \in DOMAIN pc, resp \in SaveResponses : StartSave(i, resp)
    \/ \E i \in DOMAIN pc : \E resp \in UpdateResponses(twilio_sid[i]) :
          End(i, resp)

Spec == Init /\ [][Next]_vars

\* validate_outbound_call on its own, over every argument
NextValidate ==
    \E i \in DOMAIN pc, p \in ToPhones, m \in BOOLEAN,
       resp \in LookupResponses : Validate(i, p, m, resp)

SpecValidate == Init /\ [][NextValidate]_vars

\* the responses the two-instance behaviours range over: a call with the
\* fresh or an empty sid, or a failure; two of the statuses, or a failure
PairCreateResponses ==
    {r \in CreateResponses : r.kind = "error" \/ r.sid # NoneValue}
PairUpdateResponses(sid) ==
    {r \in UpdateResponses(sid) :
        r.kind = "error" \/ r.status \in {"completed", "canceled"}}

\* start() and end() of two instances, interleaved at every request
NextTwo ==
    \/ \E i \in DOMAIN pc, resp \in LookupResponses : StartValidate(i, resp)
    \/ \E i \in DOMAIN pc, resp \in PairCreateResponses : StartCreate(i, resp)
    \/ \E i \in DOMAIN pc, resp \in SaveResponses : StartSave(i, resp)
    \/ \E i \in DOMAIN pc : \E resp \in PairUpdateResponses(twilio_sid[i]) :
          End(i, resp)

SpecTwo == InitTwo /\ [][NextTwo]_vars

(***************************************************************************)
(* Reading the history                                                     *)
(***************************************************************************)
Events == 1..Len(log)

\* the latest event of instance i among the first j, 0 if there is none
RECURSIVE LatestOf(_, _)
LatestOf(j, i) ==
    IF j = 0 THEN 0
    ELSE IF log[j].inst = i THEN j
    ELSE LatestOf(j - 1, i)

\* the latest "call" event of instance i among the first j events
RECURSIVE LatestCallOf(_, _)
LatestCallOf(j, i) ==
    IF j = 0 THEN 0
    ELSE IF log[j].ev = "call" /\ log[j].inst = i THEN j
    ELSE LatestCallOf(j - 1, i)

\* the latest earlier event of the same instance, 0 if there is none
PrevIdx(k) == LatestOf(k - 1, log[k].inst)

\* the invocation an event belongs to: the latest "call" event of its
\* instance at or before it
CallIdx(k) == LatestCallOf(k, log[k].inst)

IsValidateReturn(k) ==
    log[k].ev = "return" /\ log[k].op = "validate_outbound_call"

IsReturnOf(k, op) == log[k].ev = "return" /\ log[k].op = op

\* the latest event of the history
LastEv == log[Len(log)]

\* the events one step appends to the history
Appended == SubSeq(log', Len(log) + 1, Len(log'))

(***************************************************************************)
(* C1                                                                      *)
(***************************************************************************)
\* C1 (as claimed): every call-creation request, whether issued by start()
\* or by create_twilio_call, is preceded by a validate_outbound_call of the
\* same instance on the same destination that returned normally.
C1_ValidatedBeforeEveryCreate ==
    \A k \in Events :
        log[k].ev = "create" =>
            \E j \in 1..(k - 1) :
                /\ IsValidateReturn(j)
                /\ log[j].inst = log[k].inst
                /\ log[j].to = log[k].req.to
                /\ log[j].result = Ok

\* C1 (amended): every call-creation request issued by start() comes
\* directly after the validate_outbound_call of that same start(), on the
\* instance's destination, has returned normally.
C1_ValidatedBeforeStartCreate ==
    \A k \in Events :
        (log[k].ev = "create" /\ log[CallIdx(k)].op = "start") =>
            LET j == PrevIdx(k) IN
                /\ j > CallIdx(k)
                /\ IsValidateReturn(j)
                /\ log[j].result = Ok
                /\ log[j].to = request[log[k].inst].to_phone
                /\ log[k].req.to = request[log[k].inst].to_phone

\* start() has issued a call-creation request on a mobile-only instance
C1_Witness ==
    \E k \in Events :
        /\ log[k].ev = "create" /\ log[CallIdx(k)].op = "start"
        /\ request[log[k].inst].mobile_only

(***************************************************************************)
(* C2                                                                      *)
(***************************************************************************)
\* C2: every record save_config is asked to write has a twilio_sid that is a
\* non-empty handle, whatever the call-creation response carried.
C2_SavedHandleNonEmpty ==
    \A k \in Events :
        log[k].ev = "save_config" => Truthy(log[k].call_config.twilio_sid)

(***************************************************************************)
(* C3                                                                      *)
(***************************************************************************)
\* C3 (as claimed): over any sequence of start() and end() on one instance,
\* save_config is invoked at most once for the instance's conversation
\* identifier, and never before a call-creation request returned a handle.
C3_SavedAtMostOnce ==
    \A i \in DOMAIN pc :
        /\ Cardinality({k \in Events :
               log[k].ev = "save_config"
                   /\ log[k].key = request[i].conversation_id}) <= 1
        /\ \A k \in Events :
               (log[k].ev = "save_config" /\ log[k].inst = i) =>
                   \E j \in 1..(k - 1) :
                       /\ log[j].ev = "create" /\ log[j].inst = i
                       /\ log[j].resp.kind = "call"

\* C3 (amended): save_config is invoked at most once per start()
\* invocation, under the instance's conversation identifier, and only
\* directly after the call-creation request of that same start() has
\* returned a call; repeated start() invocations write again.
C3_SavedOncePerStart ==
    /\ \A k \in Events :
           log[k].ev = "save_config" =>
               LET j == PrevIdx(k) IN
                   /\ log[CallIdx(k)].op = "start"
                   /\ j > CallIdx(k)
                   /\ log[j].ev = "create"
                   /\ log[j].resp.kind = "call"
                   /\ log[k].key = request[log[k].inst].conversation_id
    /\ \A k1, k2 \in Events :
           (/\ log[k1].ev = "save_config" /\ log[k2].ev = "save_config"
            /\ log[k1].inst = log[k2].inst
            /\ CallIdx(k1) = CallIdx(k2)) => k1 = k2

\* two start() invocations of one instance have each written the record
C3_Witness ==
    \E k1, k2 \in Events :
        /\ k1 < k2
        /\ log[k1].ev = "save_config" /\ log[k2].ev = "save_config"
        /\ log[k1].inst = log[k2].inst
        /\ log[k1].resp = Ok /\ log[k2].resp = Ok

(***************************************************************************)
(* C4                                                                      *)
(***************************************************************************)
\* C4: a start() that ends with a validation error has issued no
\* call-creation request, has saved no SessionConfig, and leaves the
\* in-memory handle (and the provider's calls and the store) unchanged.
C4_Step ==
    \A i \in DOMAIN pc :
        (/\ Len(log') > Len(log)
         /\ LastEv'.ev = "return"
         /\ LastEv' = ReturnEv(i, "start", LastEv'.result)
         /\ LastEv'.result \in ValidationErrors) =>
            /\ Appended[1] = CallEv(i, "start")
            /\ \A k \in 1..Len(Appended) :
                   Appended[k].ev \notin {"create", "save_config"}
            /\ twilio_sid'[i] = twilio_sid[i]
            /\ calls' = calls
            /\ store' = store

C4_ValidationErrorHasNoEffect == [][C4_Step]_vars

\* a start() has just ended with "Can only call mobile phones" on an
\* instance that holds the handle of an earlier successful start()
C4_Witness ==
    /\ Len(log) > 0
    /\ IsReturnOf(Len(log), "start")
    /\ LastEv.result = NotMobile
    /\ Truthy(twilio_sid[LastEv.inst])

(***************************************************************************)
(* C5, C6, C7: validate_outbound_call                                      *)
(***************************************************************************)
\* the lookup request an invocation of validate_outbound_call made before
\* it ended at event k: the event before k if that is a lookup, else 0
LookupOf(k) ==
    IF PrevIdx(k) > 0 /\ log[PrevIdx(k)].ev = "lookup" THEN PrevIdx(k) ELSE 0

\* C5: for every destination shorter than 8 characters
\* validate_outbound_call raises the validation error, whatever
\* mobile_only is, and has made no lookup request.
C5_ShortDestinationRejected ==
    \A k \in Events :
        (IsValidateReturn(k) /\ Len(log[k].to) < 8) =>
            /\ log[k].result = InvalidToPhone
            /\ LookupOf(k) = 0
            /\ log[PrevIdx(k)].ev = "call"

\* validate_outbound_call has ended on a short destination with
\* mobile_only true and with mobile_only false
C5_Witness ==
    \E k1, k2 \in Events :
        /\ IsValidateReturn(k1) /\ IsValidateReturn(k2)
        /\ Len(log[k1].to) < 8 /\ Len(log[k2].to) < 8
        /\ log[k1].mobile_only /\ ~log[k2].mobile_only

\* C6: with mobile_only false, validate_outbound_call makes no lookup
\* request, and returns normally whenever the destination has 8 or more
\* characters.
C6_NotMobileOnlySucceeds ==
    \A k \in Events :
        (IsValidateReturn(k) /\ ~log[k].mobile_only) =>
            /\ LookupOf(k) = 0
            /\ log[PrevIdx(k)].ev = "call"
            /\ Len(log[k].to) >= 8 => log[k].result = Ok

\* validate_outbound_call has returned normally with mobile_only false on
\* destinations of exactly 8 and of more than 8 characters
C6_Witness ==
    \E k1, k2 \in Events :
        /\ IsValidateReturn(k1) /\ IsValidateReturn(k2)
        /\ ~log[k1].mobile_only /\ ~log[k2].mobile_only
        /\ Len(log[k1].to) = 8 /\ Len(log[k2].to) > 8
        /\ log[k1].result = Ok /\ log[k2].result = Ok

\* C7: with mobile_only true and a destination of 8 or more characters,
\* validate_outbound_call makes the lookup request and returns normally
\* exactly when the response carries line-type information of type
\* "mobile"; on no line-type information or any other type it raises the
\* validation error.
C7_MobileOnlyIffMobile ==
    \A k \in Events :
        (IsValidateReturn(k) /\ log[k].mobile_only /\ Len(log[k].to) >= 8) =>
            /\ LookupOf(k) > 0
            /\ LET l == log[LookupOf(k)] IN
                 /\ l.to = log[k].to
                 /\ log[k].result = Ok <=>
                        (l.resp.kind = "dict" /\ l.resp.type = "mobile")
                 /\ (l.resp.kind = "none"
                       \/ (l.resp.kind = "dict" /\ l.resp.type # "mobile"))
                        => log[k].result = NotMobile

\* validate_outbound_call has returned normally on type "mobile" and has
\* raised on no line-type information and on type "Mobile"
C7_Witness ==
    \E k1, k2, k3 \in Events :
        /\ IsValidateReturn(k1) /\ log[k1].result = Ok /\ log[k1].mobile_only
        /\ IsValidateReturn(k2) /\ log[k2].result = NotMobile
        /\ LookupOf(k2) > 0 /\ log[LookupOf(k2)].resp.kind = "none"
        /\ IsValidateReturn(k3) /\ log[k3].result = NotMobile
        /\ LookupOf(k3) > 0 /\ log[LookupOf(k3)].resp.kind = "dict"
        /\ log[LookupOf(k3)].resp.type = "Mobile"

(***************************************************************************)
(* C8                                                                      *)
(***************************************************************************)
\* the latest call-creation request of instance i
LastCreateOf(i) ==
    CHOOSE k \in Events :
        /\ log[k].ev = "create" /\ log[k].inst = i
        /\ \A m \in (k + 1)..Len(log) :
              ~(log[m].ev = "create" /\ log[m].inst = i)

\* C8: when a start() has just succeeded, the SessionConfig stored under
\* the instance's conversation identifier has the twilio_sid that the
\* provider returned for the call-creation request of that start(), which
\* is also the instance's in-memory handle.
C8_StoredHandleIsDispatched ==
    (Len(log) > 0 /\ IsReturnOf(Len(log), "start") /\ LastEv.result = Ok) =>
        LET i == LastEv.inst
            key == request[i].conversation_id
            c == LastCreateOf(i)
        IN /\ c > CallIdx(Len(log))
           /\ log[c].resp.kind = "call"
           /\ key \in DOMAIN store
           /\ store[key].twilio_sid = log[c].resp.sid
           /\ store[key].twilio_sid = twilio_sid[i]
           /\ log[Len(log) - 1].ev = "save_config"
           /\ log[Len(log) - 1].call_config = store[key]

\* a second start() has just succeeded and stored the second call's sid
C8_Witness ==
    /\ Len(log) > 0 /\ IsReturnOf(Len(log), "start") /\ LastEv.result = Ok
    /\ Len(calls) = 2
    /\ store[request[LastEv.inst].conversation_id].twilio_sid = calls[2].sid
    /\ Truthy(calls[2].sid)

(***************************************************************************)
(* C9                                                                      *)
(***************************************************************************)
\* C9: end() requests status "completed" for the instance's current
\* handle, returns true exactly when the provider reports the status
\* "completed", and false on every other reported status.
C9_EndTrueIffCompleted ==
    /\ \A k \in Events :
           IsReturnOf(k, "end") =>
               LET u == log[k - 1] IN
                   /\ u.ev = "update" /\ u.inst = log[k].inst
                   /\ u.status = "completed"
                   /\ log[k - 2] = CallEv(log[k].inst, "end")
                   /\ log[k].result = "True" <=>
                          (u.resp.kind = "status"
                               /\ u.resp.status = "completed")
                   /\ log[k].result = "False" <=>
                          (u.resp.kind = "status"
                               /\ u.resp.status # "completed")
    /\ (Len(log) > 0 /\ IsReturnOf(Len(log), "end")) =>
           log[Len(log) - 1].sid = twilio_sid[LastEv.inst]

\* end() has returned true on "completed" and false on "Completed"
C9_Witness ==
    \E k1, k2 \in Events :
        /\ IsReturnOf(k1, "end") /\ log[k1].result = "True"
        /\ IsReturnOf(k2, "end") /\ log[k2].result = "False"
        /\ log[k2 - 1].resp.status = "Completed"

(***************************************************************************)
(* C10                                                                     *)
(***************************************************************************)
\* C10: end() issues no status-update request while the instance's handle
\* is absent.
C10_NoUpdateWithoutHandle ==
    \A k \in Events : log[k].ev = "update" => log[k].sid # NoneValue

(***************************************************************************)
(* Reading the history: invocations of start()                             *)
(***************************************************************************)
\* the events of the invocation that event k belongs to, up to k
InvocationUpTo(k) == CallIdx(k)..k

\* event k is a call-creation request issued by start()
IsStartCreate(k) == log[k].ev = "create" /\ log[CallIdx(k)].op = "start"

\* event k is a dispatch: a call-creation request of start() that the
\* provider answered with a call
IsDispatch(k) == IsStartCreate(k) /\ log[k].resp.kind = "call"

\* the latest dispatch of instance i among the first n events, 0 if none
RECURSIVE LatestDispatchOf(_, _)
LatestDispatchOf(n, i) ==
    IF n = 0 THEN 0
    ELSE IF log[n].inst = i /\ IsDispatch(n) THEN n
    ELSE LatestDispatchOf(n - 1, i)

\* the handle the dispatches of instance i among the first n events leave:
\* the sid of the latest one, None before the first
HandleAfter(i, n) ==
    IF LatestDispatchOf(n, i) = 0 THEN NoneValue
    ELSE log[LatestDispatchOf(n, i)].resp.sid

\* the record the successful writes of instance i among the first n events
\* leave under its conversation identifier
SavesOf(i, n) ==
    {k \in 1..n : log[k].ev = "save_config" /\ log[k].inst = i
                      /\ log[k].resp = Ok}

LastSaveOf(i, n) == CHOOSE k \in SavesOf(i, n) : \A m \in SavesOf(i, n) : m <= k

\* the step appends events of instance i
StepOf(i) == Len(log') > Len(log) /\ LastEv'.inst = i

(***************************************************************************)
(* C11                                                                     *)
(***************************************************************************)
\* C11: when save_config fails after the call was placed, start() ends with
\* the persistence error, has issued no status-update request, the store
\* holds no record of the placed call (it is as the earlier successful
\* writes left it), and the in-memory handle stays the handle of the placed
\* call, which a directly following end() targets.
C11_NoCompensation ==
    \A k \in Events :
        (IsReturnOf(k, "start") /\ log[k].result = PersistenceError) =>
            LET i == log[k].inst
                key == request[i].conversation_id
                c == PrevIdx(k - 1)
            IN /\ log[k - 1].ev = "save_config"
               /\ log[k - 1].resp = PersistenceError
               /\ IsDispatch(c) /\ log[c].inst = i /\ c > CallIdx(k)
               /\ \A m \in InvocationUpTo(k) : log[m].ev # "update"
               /\ \E n \in 1..Len(calls) : calls[n].sid = log[c].resp.sid
               /\ k = Len(log) =>
                    /\ twilio_sid[i] = log[c].resp.sid
                    /\ IF SavesOf(i, k) = {} THEN key \notin DOMAIN store
                       ELSE store[key] = log[LastSaveOf(i, k)].call_config
               /\ (k + 2 <= Len(log) /\ log[k + 1] = CallEv(i, "end")) =>
                    /\ log[k + 2].ev = "update"
                    /\ log[k + 2].sid = log[c].resp.sid

\* a first start() placed a call and failed to save it, and the end() that
\* followed asked the provider to complete that call
C11_Witness ==
    \E k \in Events :
        /\ IsReturnOf(k, "start") /\ log[k].result = PersistenceError
        /\ SavesOf(log[k].inst, Len(log)) = {}
        /\ k + 2 <= Len(log)
        /\ log[k + 2].ev = "update"
        /\ Truthy(log[k + 2].sid)
        /\ log[k + 2].sid = calls[1].sid

(***************************************************************************)
(* C12                                                                     *)
(***************************************************************************)
\* C12: when the call-creation request fails inside start(), that start()
\* has issued exactly one call-creation request, ends with the provider's
\* error, has saved no SessionConfig, and leaves the in-memory handle as it
\* was before the start().
C12_Failed ==
    Len(log) > 1 /\ IsReturnOf(Len(log), "start")
        /\ log[Len(log) - 1].ev = "create"

C12_History ==
    \A k \in Events :
        (IsStartCreate(k) /\ log[k].resp.kind = "error") =>
            /\ k < Len(log)
            /\ log[k + 1] = ReturnEv(log[k].inst, "start", ProviderError)
            /\ Cardinality({m \in InvocationUpTo(k + 1) :
                               log[m].ev = "create"}) = 1
            /\ \A m \in InvocationUpTo(k + 1) : log[m].ev # "save_config"

\* every step of a start() up to and including the failed request leaves
\* the handle, the store and the provider's calls alone
C12_Step ==
    \A i \in DOMAIN pc :
        (StepOf(i) /\ (pc'[i] = "create" \/ (pc[i] = "create" /\ C12_Failed'))) =>
            /\ twilio_sid' = twilio_sid
            /\ store' = store
            /\ calls' = calls

C12_CreateFailureSurfaced == [][C12_Step]_vars /\ []C12_History

\* a start() has just ended with the provider's error on its call-creation
\* request, on an instance holding the handle of an earlier dispatch
C12_Witness ==
    /\ C12_Failed
    /\ LastEv.result = ProviderError
    /\ Truthy(twilio_sid[LastEv.inst])

(***************************************************************************)
(* C13                                                                     *)
(***************************************************************************)
\* C13: with mobile_only true and a destination of 8 or more characters,
\* every validate_outbound_call makes exactly one lookup request; when that
\* request fails, validate_outbound_call and start() end with the
\* provider's error, and start() issues no call-creation request.
C13_LookupOnceAndSurfaced ==
    \A k \in Events :
        (IsValidateReturn(k) /\ log[k].mobile_only /\ Len(log[k].to) >= 8) =>
            /\ Cardinality({m \in InvocationUpTo(k) :
                               log[m].ev = "lookup"}) = 1
            /\ log[k - 1].ev = "lookup"
            /\ log[k - 1].resp.kind = "error" =>
                 /\ log[k].result = ProviderError
                 /\ log[CallIdx(k)].op = "start" =>
                      /\ k < Len(log)
                      /\ log[k + 1] =
                            ReturnEv(log[k].inst, "start", ProviderError)
                      /\ \A m \in InvocationUpTo(k + 1) :
                             log[m].ev \notin {"create", "save_config"}
                      /\ pc[log[k].inst] = "idle"
                            \/ CallIdx(Len(log)) > k

\* a start() has ended with the provider's error of the lookup
C13_Witness ==
    \E k \in Events :
        /\ IsValidateReturn(k) /\ log[k].result = ProviderError
        /\ log[CallIdx(k)].op = "start"
        /\ log[k - 1].ev = "lookup"

(***************************************************************************)
(* C14                                                                     *)
(***************************************************************************)
\* C14: under every interleaving of the start() and end() steps of two
\* instances with distinct conversation identifiers, each instance's
\* in-memory handle is the one its own latest dispatch returned, the record
\* under its conversation identifier is the one its own latest successful
\* write made, with the handle of its own dispatch, every update request of
\* end() names the instance's own handle, and a non-empty handle is never
\* the other instance's.
C14_InstancesIndependent ==
    \A i \in DOMAIN pc :
        LET key == request[i].conversation_id
            n == Len(log)
        IN /\ twilio_sid[i] = HandleAfter(i, n)
           /\ IF SavesOf(i, n) = {} THEN key \notin DOMAIN store
              ELSE /\ store[key] = log[LastSaveOf(i, n)].call_config
                   /\ store[key].twilio_sid = HandleAfter(i, LastSaveOf(i, n))
                   /\ store[key].twilio_to = request[i].to_phone
           /\ \A u \in Events :
                  (log[u].ev = "update" /\ log[u].inst = i) =>
                      log[u].sid = HandleAfter(i, u)
           /\ \A j \in DOMAIN pc \ {i} :
                  Truthy(twilio_sid[i]) => twilio_sid[i] # twilio_sid[j]
           /\ \A c \in 1..Len(calls) :
                  (Truthy(twilio_sid[i]) /\ calls[c].sid = twilio_sid[i]) =>
                      calls[c].req.twiml.call_id = key

\* the two start() invocations overlapped (the second instance dispatched
\* between the first one's dispatch and its write), both records are stored
\* and an end() has asked for a non-empty handle
C14_Witness ==
    /\ \E c1, c2, s1 \in Events :
          /\ c1 < c2 /\ c2 < s1
          /\ IsDispatch(c1) /\ log[c1].inst = 1
          /\ IsDispatch(c2) /\ log[c2].inst = 2
          /\ log[s1].ev = "save_config" /\ log[s1].inst = 1
    /\ \A i \in DOMAIN pc :
          /\ request[i].conversation_id \in DOMAIN store
          /\ Truthy(twilio_sid[i])
    /\ \E u \in Events : log[u].ev = "update" /\ Truthy(log[u].sid)

(***************************************************************************)
(* C15                                                                     *)
(***************************************************************************)
\* the fields of the request
RequestFields ==
    {"base_url", "to_phone", "digits", "from_phone", "mobile_only",
     "conversation_id", "agent_config", "transcriber_config",
     "synthesizer_config", "twilio_config", "record"}

\* C15: no step of validate_outbound_call, start() or end() changes a field
\* of the request; the only instance field that changes is the in-memory
\* handle, and only in the step of start() where the call-creation request
\* returned a call, to the sid of that call.
C15_Step ==
    \A i \in DOMAIN pc :
        /\ DOMAIN request'[i] = RequestFields
        /\ \A f \in RequestFields : request'[i][f] = request[i][f]
        /\ twilio_sid'[i] # twilio_sid[i] =>
              /\ pc[i] = "create" /\ pc'[i] = "save"
              /\ Appended = <<LastEv'>>
              /\ LastEv'.ev = "create" /\ LastEv'.inst = i
              /\ LastEv'.resp.kind = "call"
              /\ twilio_sid'[i] = LastEv'.resp.sid

C15_RequestImmutable == [][C15_Step]_vars

\* a start() has succeeded and set the handle, and an end() has returned
C15_Witness ==
    \E k1, k2 \in Events :
        /\ IsReturnOf(k1, "start") /\ log[k1].result = Ok
        /\ IsReturnOf(k2, "end")
        /\ Truthy(twilio_sid[log[k1].inst])

(***************************************************************************)
(* C16                                                                     *)
(***************************************************************************)
\* the latest dispatch of instance i, 0 if there is none
LastDispatchIdx(i) == LatestDispatchOf(Len(log), i)

\* the lifecycle state of instance i: 0 "handle absent" (None, or empty),
\* 1 "handle present, call active", 2 "termination requested" (an end() has
\* asked the provider since the handle was set)
Lifecycle(i) ==
    IF ~Truthy(twilio_sid[i]) THEN 0
    ELSE IF \E u \in Events :
               /\ u > LastDispatchIdx(i)
               /\ log[u].ev = "update" /\ log[u].inst = i
         THEN 2
         ELSE 1

\* the step is one in which the provider answered a call-creation request
\* with a call that has no sid
SidMissing == LastEv.ev = "create" /\ LastEv.resp.kind = "call"
                 /\ ~Truthy(LastEv.resp.sid)

\* C16 (as claimed): over any sequence of start() and end() the state only
\* moves forward along absent, active, termination requested; the handle
\* does not return to absent, and start() issues no call-creation request
\* once termination has been requested.  (Steps in which the provider
\* returns a call without a sid are left out of the statement.)
C16_ForwardStep ==
    \A i \in DOMAIN pc :
        (StepOf(i) /\ ~SidMissing') =>
            /\ Lifecycle(i)' >= Lifecycle(i)
            /\ ~(Lifecycle(i) = 2 /\ pc[i] = "create")

C16_ForwardOnly == [][C16_ForwardStep]_vars

\* C16 (amended): the handle is set and replaced only by a dispatch inside
\* start() (so the state leaves "handle absent", and moves back from
\* "termination requested", only by one); only end() requests termination,
\* for the current handle, and never changes the handle; and a start()
\* invoked after termination was requested issues its call-creation request
\* like any other.
C16_LifecycleStep ==
    \A i \in DOMAIN pc :
        StepOf(i) =>
            /\ twilio_sid'[i] # twilio_sid[i] =>
                  /\ pc[i] = "create" /\ pc'[i] = "save"
                  /\ LastEv'.ev = "create" /\ LastEv'.resp.kind = "call"
                  /\ twilio_sid'[i] = LastEv'.resp.sid
            /\ (\E m \in 1..Len(Appended) : Appended[m].ev = "update") =>
                  /\ Appended[1] = CallEv(i, "end")
                  /\ Appended[2].sid = twilio_sid[i]
                  /\ twilio_sid' = twilio_sid
                  /\ pc' = pc
            /\ pc[i] = "create" =>
                  /\ Appended[1].ev = "create"
                  /\ (Lifecycle(i) = 2 /\ Appended[1].resp.kind = "call") =>
                        /\ twilio_sid'[i] = Appended[1].resp.sid
                        /\ Len(calls') = Len(calls) + 1

C16_Lifecycle == [][C16_LifecycleStep]_vars

\* a start() has dispatched a new call after an end() had requested the
\* termination of the earlier one
C16_Witness ==
    \E u, c \in Events :
        /\ u < c
        /\ log[u].ev = "update" /\ Truthy(log[u].sid)
        /\ IsDispatch(c) /\ log[c].inst = log[u].inst
        /\ twilio_sid[log[c].inst] = log[c].resp.sid
        /\ log[c].resp.sid # log[u].sid

(***************************************************************************)
(* C17                                                                     *)
(***************************************************************************)
\* the first event of the same instance after k, 0 if there is none
RECURSIVE NextFrom(_, _)
NextFrom(j, i) ==
    IF j > Len(log) THEN 0
    ELSE IF log[j].inst = i THEN j
    ELSE NextFrom(j + 1, i)

NextIdx(k) == NextFrom(k + 1, log[k].inst)

\* the call-creation requests the provider answered with a call
Placements ==
    {m \in Events : log[m].ev = "create" /\ log[m].resp.kind = "call"}

\* C17: every start() that passes validation issues exactly one
\* call-creation request (directly after its validation has passed, and no
\* second one), whatever the instance holds from earlier invocations; every
\* request the provider answers places one more call, so n of them place n
\* calls, and calls with a sid have pairwise different sids.
C17_NoIdempotency ==
    /\ \A v \in Events :
          (/\ IsValidateReturn(v) /\ log[v].result = Ok
           /\ log[CallIdx(v)].op = "start") =>
              IF NextIdx(v) = 0
              THEN pc[log[v].inst] = "create"
              ELSE /\ log[NextIdx(v)].ev = "create"
                   /\ log[NextIdx(v)].req.to = log[v].to
    /\ \A m \in Events :
          IsStartCreate(m) =>
              /\ IsValidateReturn(PrevIdx(m))
              /\ log[PrevIdx(m)].result = Ok
              /\ NextIdx(m) # 0 => log[NextIdx(m)].ev # "create"
    /\ Len(calls) = Cardinality(Placements)
    /\ \A a, b \in 1..Len(calls) :
          (a # b /\ Truthy(calls[a].sid)) => calls[a].sid # calls[b].sid

\* a start() placed a call and failed to save it, and the start() invoked
\* again placed a second call
C17_Witness ==
    \E k, c \in Events :
        /\ k < c
        /\ IsReturnOf(k, "start") /\ log[k].result = PersistenceError
        /\ IsDispatch(c) /\ log[c].inst = log[k].inst
        /\ Len(calls) = 2
        /\ Truthy(calls[1].sid) /\ Truthy(calls[2].sid)

(***************************************************************************)
(* C18                                                                     *)
(***************************************************************************)
\* C18: the conversation identifier fixed at construction (the supplied
\* one, or the generated one when none or an empty one is supplied) is the
\* call id of the connection instructions of every call-creation request of
\* the instance and the key of every save_config of the instance.
C18_OneConversationId ==
    /\ \A i \in DOMAIN pc :
          /\ request[i].conversation_id
                \in (SuppliedIds \cup {create_conversation_id(i)})
          /\ Truthy(request[i].conversation_id)
    /\ \A k \in Events :
          /\ log[k].ev = "create" =>
                /\ log[k].req.twiml.call_id =
                      request[log[k].inst].conversation_id
                /\ log[k].req.twiml.base_url = request[log[k].inst].base_url
          /\ log[k].ev = "save_config" =>
                log[k].key = request[log[k].inst].conversation_id
    /\ \A c \in 1..Len(calls), key \in DOMAIN store :
          store[key].twilio_sid = calls[c].sid =>
              calls[c].req.twiml.call_id = key

\* an instance constructed with a supplied identifier has placed a call and
\* stored its record under that identifier
C18_Witness ==
    \E k \in Events :
        /\ log[k].ev = "save_config" /\ log[k].resp = Ok
        /\ log[k].key = "conv-A"
        /\ "conv-A" \in DOMAIN store
        /\ log[PrevIdx(k)].ev = "create"
        /\ log[PrevIdx(k)].req.twiml.call_id = "conv-A"

(***************************************************************************)
(* C19                                                                     *)
(***************************************************************************)
\* the sid the provider returned to the start() that returned at event k
DispatchedBy(k) == log[PrevIdx(k - 1)].resp.sid

\* C19: after two successful start() invocations of one instance (and no
\* later dispatch), the in-memory handle and the stored record's handle are
\* those of the second call, and every later end() issues its update
\* request for the second call, not for the first.
C19_LatestHandleOnly ==
    \A k1, k2 \in Events :
        (/\ k1 < k2
         /\ IsReturnOf(k1, "start") /\ log[k1].result = Ok
         /\ IsReturnOf(k2, "start") /\ log[k2].result = Ok
         /\ log[k1].inst = log[k2].inst
         /\ LastDispatchIdx(log[k2].inst) < k2) =>
            LET i == log[k2].inst
                key == request[i].conversation_id
            IN /\ twilio_sid[i] = DispatchedBy(k2)
               /\ store[key].twilio_sid = DispatchedBy(k2)
               /\ \A u \in (k2 + 1)..Len(log) :
                      (log[u].ev = "update" /\ log[u].inst = i) =>
                          /\ log[u].sid = DispatchedBy(k2)
                          /\ DispatchedBy(k1) # DispatchedBy(k2) =>
                                log[u].sid # DispatchedBy(k1)

\* two start() invocations have succeeded with different sids and an end()
\* has asked the provider to complete the second call
C19_Witness ==
    \E k1, k2, u \in Events :
        /\ k1 < k2 /\ k2 < u
        /\ IsReturnOf(k1, "start") /\ log[k1].result = Ok
        /\ IsReturnOf(k2, "start") /\ log[k2].result = Ok
        /\ log[u].ev = "update"
        /\ Truthy(DispatchedBy(k1)) /\ Truthy(DispatchedBy(k2))
        /\ log[u].sid = DispatchedBy(k2)
        /\ log[u].sid # DispatchedBy(k1)

(***************************************************************************)
(* C20                                                                     *)
(***************************************************************************)
\* C20: after a successful start(), whatever start() invocations fail in
\* validation or in call creation and whatever end() invocations follow,
\* the in-memory handle and the record under the conversation identifier
\* are as that start() left them, and the two handles are equal.
C20_FailedStepsKeepState ==
    \A k \in Events :
        (/\ IsReturnOf(k, "start") /\ log[k].result = Ok
         /\ LastDispatchIdx(log[k].inst) < k) =>
            LET i == log[k].inst
                key == request[i].conversation_id
            IN /\ log[k - 1].ev = "save_config"
               /\ store[key] = log[k - 1].call_config
               /\ twilio_sid[i] = log[k - 1].call_config.twilio_sid
               /\ twilio_sid[i] = store[key].twilio_sid
               /\ pc[i] \in {"idle", "create"}

\* after a successful start(), a start() has failed in call creation and an
\* end() has returned
C20_Witness ==
    \E k, f, e \in Events :
        /\ k < f /\ k < e
        /\ IsReturnOf(k, "start") /\ log[k].result = Ok
        /\ IsReturnOf(f, "start") /\ log[f].result = ProviderError
        /\ log[f - 1].ev = "create"
        /\ IsReturnOf(e, "end")
        /\ Truthy(twilio_sid[log[k].inst])

====
